---- MODULE Spec2Model ----
(***************************************************************************)
(* Model of the QuestDB ingestion stack:                                   *)
(*   subscriber/subscriber.py  - MQTT subscriber writing metrics to the    *)
(*                               mqtt_metrics table                        *)
(*   app/main.py               - FastAPI query service                     *)
(***************************************************************************)
EXTENDS Integers, Sequences, FiniteSets, TLC

VARIABLES
    retries,      \* create_table: parameter `retries`
    delay,        \* create_table: parameter `delay`
    attempt,      \* create_table: local `attempt`
    ctTrace,      \* history of create_table: store connection attempts and sleeps
    ctExc,        \* create_table: the exception last raised in its try block
    mpc,          \* position of the subscriber's main program
    table_ready,  \* mqtt_metrics has been created and committed
    conns,        \* store connections (psycopg2) that are not closed
    store,        \* committed rows of mqtt_metrics, in insertion order
    bus,          \* state of the MQTT client
    endedBy,      \* how the bus session before a connect ended, and from which state
    waited,       \* time slept by the main loop since that session ended
    subscribes,   \* the result codes on_connect called subscribe with, this session
    hpc,          \* position of the on_message callback
    cur,          \* the message on_message is processing, with insert_metrics' locals
    delivered,    \* names of the messages handed to on_message so far, in delivery order
    failed,       \* indices of the delivered messages whose processing raised
    escaped,      \* an exception has left on_message
    msg,          \* the message a publisher is about to send, when it is followed
    pool,         \* query service: app.state.db_pool
    temp_data,    \* query service: the Temp_data table
    resp          \* query service: last response of an endpoint

subVars == <<retries, delay, attempt, ctTrace, ctExc, mpc, table_ready, conns, store,
             bus, endedBy, waited, subscribes, hpc, cur, delivered, failed, escaped,
             msg>>
qVars == <<pool, temp_data, resp>>
vars == <<retries, delay, attempt, ctTrace, ctExc, mpc, table_ready, conns, store,
          bus, endedBy, waited, subscribes, hpc, cur, delivered, failed, escaped,
          msg, pool, temp_data, resp>>

----------------------------------------------------------------------------
(* Bounds of the model *)

MaxRetries == 3      \* create_table is explored for retries in 0..MaxRetries
MaxDelay == 2        \* ... and for delay in 1..MaxDelay
MaxMsgs == 2         \* messages delivered to on_message in one run
MaxReadings == 2     \* rows of Temp_data
MaxSegs == 6         \* segments of the topic of a followed message

(* Program constants *)

DefaultRetries == 10     \* create_table(retries=10, ...)
DefaultDelay == 5        \* create_table(..., delay=5)
ReconnectDelay == 5      \* time.sleep(5) of the main loop
page_size == 100         \* execute_values' page_size, left at its default
TsScale == 1000          \* m.get("timestamp") * 1000

----------------------------------------------------------------------------
(* Python exceptions.  Ancestors(c) is the set of classes an instance of c  *)
(* is an instance of, as far as the except clauses of the program go.       *)

Ancestors(c) ==
    CASE c = "JSONDecodeError"     -> {"JSONDecodeError", "ValueError", "Exception"}
      [] c = "UnicodeDecodeError"  -> {"UnicodeDecodeError", "ValueError", "Exception"}
      [] c = "ValueError"          -> {"ValueError", "Exception"}
      [] c = "TypeError"           -> {"TypeError", "Exception"}
      [] c = "AttributeError"      -> {"AttributeError", "Exception"}
      [] c = "OSError"             -> {"OSError", "Exception"}
      [] c = "OperationalError"    -> {"OperationalError", "DatabaseError", "Exception"}
      [] c = "ProgrammingError"    -> {"ProgrammingError", "DatabaseError", "Exception"}
      [] c = "HTTPException"       -> {"HTTPException", "Exception"}
      [] c = "UndefinedTableError" -> {"UndefinedTableError", "PostgresError", "Exception"}
      [] c = "InterfaceError"      -> {"InterfaceError", "Exception"}
      [] OTHER                     -> {c, "Exception"}

IsInstance(c, cls) == cls \in Ancestors(c)

(* The exceptions the store client and the bus client raise in the model. *)
StoreErrors == {"OperationalError", "ProgrammingError"}
BusErrors == {"OSError", "RuntimeError"}
ConnackCodes == {0, 5}

----------------------------------------------------------------------------
(* Store connections (psycopg2).  A connection is a record                  *)
(*   owner   - the function that opened it                                  *)
(*   txn     - "active" | "committed" | "rolledback"                        *)
(*   ref     - what keeps the connection object alive: the "frame" of its   *)
(*             owner, or the "traceback" of an exception in flight          *)
(*   pending - rows inserted in the open transaction                        *)
(*   autocommit - every statement is its own transaction (off by default)   *)
(* The set conns holds the connections that are not closed.  Nothing in     *)
(* the program calls close(): a connection is closed when the last          *)
(* reference to it goes away.                                               *)

(* a connection switched to autocommit *)
NewConn_Autocommit(owner) ==
    [owner |-> owner, txn |-> "active", ref |-> "frame", pending |-> << >>,
     autocommit |-> TRUE]

(* psycopg2.connect(QDB_CONN) *)
NewConn(owner) ==
    [owner |-> owner, txn |-> "active", ref |-> "frame", pending |-> << >>,
     autocommit |-> FALSE]

(* connection.__exit__ of `with psycopg2.connect(...) as conn`: commit when *)
(* the block ends normally, rollback when it ends with an exception.  The   *)
(* connection is left open.                                                 *)
ConnExit(c, raised) ==
    IF raised
        THEN [c EXCEPT !.txn = "rolledback", !.pending = << >>]
        ELSE [c EXCEPT !.txn = "committed", !.pending = << >>]

(* The frame of `owner` ends by an exception: its locals stay alive through *)
(* the traceback of the exception.                                          *)
FrameToTraceback(cs, owner) ==
    {IF c.owner = owner /\ c.ref = "frame" THEN [c EXCEPT !.ref = "traceback"] ELSE c
        : c \in cs}

(* The connections left once the frame of `owner` has returned normally:    *)
(* its local `conn` is dropped, which closes the connection.                *)
FrameReturned(cs, owner) == {c \in cs : ~(c.owner = owner /\ c.ref = "frame")}

(* The connections left once the exception in flight has been dropped.      *)
TracebackDropped(cs) == {c \in cs : c.ref # "traceback"}

OwnConn(owner) == CHOOSE c \in conns : c.owner = owner /\ c.ref = "frame"

----------------------------------------------------------------------------
(* create_table(retries, delay)                                             *)

Event(e, d) == [ev |-> e, d |-> d]

(* an except clause for every error of the store: except psycopg2.DatabaseError *)
create_table_catches_Database(exc) == IsInstance(exc, "DatabaseError")

(* except psycopg2.OperationalError *)
create_table_catches(exc) == IsInstance(exc, "OperationalError")

(* An exception raised inside the try block of create_table, after the     *)
(* events evs: caught by the except clause (attempt += 1, print), or left   *)
(* to propagate out of create_table.                                        *)
CT_Raise(exc, cs, evs) ==
    /\ ctExc' = exc
    /\ IF create_table_catches(exc)
        THEN /\ attempt' = attempt + 1
             /\ mpc' = "ct_sleep"
             /\ conns' = cs
             /\ ctTrace' = ctTrace \o evs
        ELSE /\ mpc' = "ct_raised"
             /\ conns' = FrameToTraceback(cs, "create_table")
             /\ ctTrace' = ctTrace \o evs \o <<Event("raise_other", 0)>>
             /\ UNCHANGED attempt

(* the loop test off by one: while attempt <= retries *)
create_table_continues_OffByOne(a, r) == a <= r

(* while attempt < retries *)
create_table_continues(a, r) == a < r

(* try: with psycopg2.connect(QDB_CONN) as conn.  Binding conn anew drops    *)
(* the connection a failed attempt left in it.                              *)
CT_Connect(outcome) ==
    /\ mpc = "create_table"
    /\ create_table_continues(attempt, retries)
    /\ IF outcome = "ok"
          THEN /\ conns' = FrameReturned(conns, "create_table")
                              \cup {NewConn("create_table")}
               /\ mpc' = "ct_execute"
               /\ ctTrace' = Append(ctTrace, Event("connect", 0))
               /\ UNCHANGED <<attempt, ctExc>>
          ELSE CT_Raise(outcome, conns, <<Event("connect", 0)>>)
    /\ UNCHANGED <<retries, delay, table_ready, store>>

(* cur.execute("CREATE TABLE IF NOT EXISTS mqtt_metrics ...") *)
CT_Execute(outcome) ==
    /\ mpc = "ct_execute"
    /\ IF outcome = "ok"
          THEN /\ mpc' = "ct_commit"
               /\ UNCHANGED <<attempt, conns, ctTrace, ctExc>>
          ELSE LET c == OwnConn("create_table")
               IN  CT_Raise(outcome, (conns \ {c}) \cup {ConnExit(c, TRUE)}, << >>)
    /\ UNCHANGED <<retries, delay, table_ready, store>>

(* conn.commit(); leaving the with block; print; return *)
CT_Commit(outcome) ==
    /\ mpc = "ct_commit"
    /\ IF outcome = "ok"
          THEN /\ table_ready' = TRUE
               /\ mpc' = "ct_returned"
               /\ conns' = FrameReturned(conns, "create_table")
               /\ ctTrace' = Append(ctTrace, Event("return", 0))
               /\ UNCHANGED <<attempt, ctExc>>
          ELSE LET c == OwnConn("create_table")
               IN  /\ CT_Raise(outcome, (conns \ {c}) \cup {ConnExit(c, TRUE)}, << >>)
                   /\ UNCHANGED table_ready
    /\ UNCHANGED <<retries, delay, store>>

(* time.sleep(delay) *)
CT_Sleep ==
    /\ mpc = "ct_sleep"
    /\ ctTrace' = Append(ctTrace, Event("sleep", delay))
    /\ mpc' = "create_table"
    /\ UNCHANGED <<retries, delay, attempt, ctExc, table_ready, conns, store>>

(* raise Exception("Failed to connect to QuestDB after multiple attempts.") *)
CT_Exhausted ==
    /\ mpc = "create_table"
    /\ ~create_table_continues(attempt, retries)
    /\ mpc' = "ct_raised"
    /\ ctTrace' = Append(ctTrace, Event("raise_fatal", 0))
    /\ conns' = FrameToTraceback(conns, "create_table")
    /\ UNCHANGED <<retries, delay, attempt, ctExc, table_ready, store>>

----------------------------------------------------------------------------
(* Python values, as far as the subscriber looks at them.                   *)
(*   t - the type: "None", "int", "float", "bool", "str", "list", "dict"    *)
(*   s - the text of a str                                                  *)
(*   n - the number: an int as itself, a float in tenths, and for a str or  *)
(*       a list the number of times its content is repeated                 *)

PyNone == [t |-> "None", s |-> "", n |-> 0]
PyInt(k) == [t |-> "int", s |-> "", n |-> k]
PyFloat(tenths) == [t |-> "float", s |-> "", n |-> tenths]
PyStr(x) == [t |-> "str", s |-> x, n |-> 1]
PyList == [t |-> "list", s |-> "", n |-> 1]

Ok(v) == [ok |-> TRUE, val |-> v, exc |-> ""]
Raise(exc) == [ok |-> FALSE, val |-> PyNone, exc |-> exc]

(* The decimal texts the model uses, with their value in tenths. *)
NumericText == [x \in {"12.5", "7"} |-> IF x = "12.5" THEN 125 ELSE 70]

(* a conversion that takes numbers only, no text *)
PyFloatOf_NumbersOnly(v) ==
    CASE v.t = "float" -> Ok(v)
      [] v.t \in {"int", "bool"} -> Ok(PyFloat(10 * v.n))
      [] OTHER -> Raise("TypeError")

(* float(v) *)
PyFloatOf(v) ==
    CASE v.t = "float" -> Ok(v)
      [] v.t \in {"int", "bool"} -> Ok(PyFloat(10 * v.n))
      [] v.t = "str" -> IF v.n = 1 /\ v.s \in DOMAIN NumericText
                            THEN Ok(PyFloat(NumericText[v.s]))
                            ELSE Raise("ValueError")
      [] OTHER -> Raise("TypeError")

(* a product carried out in floating point *)
PyMul_AsFloat(v, k) ==
    CASE v.t \in {"int", "bool", "float"} -> Ok(PyFloat(v.n * k))
      [] v.t \in {"str", "list"} -> Ok([v EXCEPT !.n = v.n * k])
      [] OTHER -> Raise("TypeError")

(* v * k for an int k >= 1 *)
PyMul(v, k) ==
    CASE v.t \in {"int", "bool"} -> Ok(PyInt(v.n * k))
      [] v.t = "float" -> Ok(PyFloat(v.n * k))
      [] v.t \in {"str", "list"} -> Ok([v EXCEPT !.n = v.n * k])
      [] OTHER -> Raise("TypeError")

(* A metric object: a dict with the keys `has`, f[k] being the value of key *)
(* k; an element of the metrics list that is no dict has another type t.    *)
Metric(has, name, alias, value, timestamp) ==
    [t |-> "dict", has |-> has,
     f |-> [name |-> name, alias |-> alias, value |-> value, timestamp |-> timestamp]]
NotAMetric(t) ==
    [t |-> t, has |-> {},
     f |-> [name |-> PyNone, alias |-> PyNone, value |-> PyNone, timestamp |-> PyNone]]

(* m.get(k) *)
Get(m, k) == IF k \in m.has THEN m.f[k] ELSE PyNone

----------------------------------------------------------------------------
(* insert_metrics(topic, metrics): the topic and the rows                   *)

RECURSIVE Split(_)
(* topic.split("/"): a topic is a sequence of one-character strings *)
Split(topic) ==
    IF topic = << >> THEN <<"">>
    ELSE LET rest == Split(Tail(topic))
         IN  IF Head(topic) = "/"
                THEN <<"">> \o rest
                ELSE <<Head(topic) \o Head(rest)>> \o Tail(rest)

(* labels taken only from a topic that has all five segments *)
Label_AllOrNone(parts, i) == IF Len(parts) > 4 THEN PyStr(parts[i + 1]) ELSE PyNone

(* parts[i] if len(parts) > i else None, for the 0-based index i *)
Label(parts, i) == IF Len(parts) > i THEN PyStr(parts[i + 1]) ELSE PyNone

(* The tuple appended to rows for the metric m. *)
Row(parts, m) ==
    IF m.t # "dict" THEN Raise("AttributeError")
    ELSE LET value == IF Get(m, "value") # PyNone
                         THEN PyFloatOf(Get(m, "value"))
                         ELSE Ok(PyNone)
             ts == PyMul(Get(m, "timestamp"), TsScale)
         IN  IF ~value.ok THEN Raise(value.exc)
             ELSE IF ~ts.ok THEN Raise(ts.exc)
             ELSE [ok |-> TRUE, exc |-> "",
                   val |-> <<Label(parts, 0), Label(parts, 1), Label(parts, 2),
                             Label(parts, 3), Label(parts, 4),
                             Get(m, "name"), Get(m, "alias"), value.val, ts.val>>]

(* a loop that leaves out the elements whose tuple raises *)
RowsOf_SkipBad(parts, items) ==
    LET good == SelectSeq(items, LAMBDA m : Row(parts, m).ok)
    IN  [ok |-> TRUE, exc |-> "",
         rows |-> [i \in 1..Len(good) |-> Row(parts, good[i]).val]]

(* rows = []; for m in metrics: rows.append(...): the loop stops at the     *)
(* first element whose tuple raises                                         *)
RowsOf(parts, items) ==
    LET r == [i \in 1..Len(items) |-> Row(parts, items[i])]
        bad == {i \in 1..Len(items) : ~r[i].ok}
    IN  IF bad # {}
           THEN [ok |-> FALSE, rows |-> << >>,
                 exc |-> r[CHOOSE i \in bad : \A j \in bad : i <= j].exc]
           ELSE [ok |-> TRUE, exc |-> "", rows |-> [i \in 1..Len(items) |-> r[i].val]]

(* The metrics value handed to insert_metrics: t is its type, items its     *)
(* elements when it can be iterated.                                        *)
MetricsList(items) == [t |-> "list", items |-> items]
MetricsOther(t) == [t |-> t, items |-> << >>]

BuildRows(topic, metrics) ==
    IF metrics.t \in {"list", "str", "dict"}
        THEN RowsOf(Split(topic), metrics.items)
        ELSE [ok |-> FALSE, exc |-> "TypeError", rows |-> << >>]

(* The pages execute_values cuts the rows into: one INSERT statement each. *)
NumPages(rows) == (Len(rows) + page_size - 1) \div page_size
Page(rows, k) ==
    SubSeq(rows, (k - 1) * page_size + 1,
           IF k * page_size < Len(rows) THEN k * page_size ELSE Len(rows))

----------------------------------------------------------------------------
(* on_message: the payload                                                  *)

(* A message body: t is "invalid_utf8", "invalid_json", or the type of the  *)
(* decoded JSON document; for a dict, hasMetrics and metrics give its       *)
(* "metrics" key.                                                           *)
Body(t, hasMetrics, metrics) == [t |-> t, hasMetrics |-> hasMetrics, metrics |-> metrics]

(* payload = json.loads(msg.payload.decode()); payload.get("metrics", []) *)
PayloadMetrics(body) ==
    CASE body.t = "invalid_utf8" -> [ok |-> FALSE, exc |-> "UnicodeDecodeError",
                                     metrics |-> MetricsList(<< >>)]
      [] body.t = "invalid_json" -> [ok |-> FALSE, exc |-> "JSONDecodeError",
                                     metrics |-> MetricsList(<< >>)]
      [] body.t = "dict" -> [ok |-> TRUE, exc |-> "",
                             metrics |-> IF body.hasMetrics THEN body.metrics
                                         ELSE MetricsList(<< >>)]
      [] OTHER -> [ok |-> FALSE, exc |-> "AttributeError", metrics |-> MetricsList(<< >>)]

----------------------------------------------------------------------------
(* The messages of the model                                                *)

AllKeys == {"name", "alias", "value", "timestamp"}
GoodMetric(ts) == Metric(AllKeys, PyStr("temp"), PyInt(3), PyFloat(217), PyInt(ts))
NoValueMetric(ts) == Metric(AllKeys \ {"value"}, PyStr("rpm"), PyInt(4), PyNone, PyInt(ts))
TextValueMetric(ts) == Metric(AllKeys, PyStr("load"), PyInt(5), PyStr("12.5"), PyInt(ts))
BadValueMetric(ts) == Metric(AllKeys, PyStr("temp"), PyInt(3), PyStr("n/a"), PyInt(ts))
NoTimestampMetric == Metric(AllKeys \ {"timestamp"}, PyStr("temp"), PyInt(3), PyFloat(217), PyNone)

TopicDevice == <<"spBv1.0", "/", "g1", "/", "DDATA", "/", "n1", "/", "d1">>
TopicNode == <<"spBv1.0", "/", "g1", "/", "NDATA", "/", "n1">>

Msg(topic, body) == [topic |-> topic, body |-> body]
DictBody(items) == Body("dict", TRUE, MetricsList(items))

BigBatch == [i \in 1..(page_size + 1) |-> GoodMetric(i)]

(* The messages published in the model, by name. *)
MessageNames ==
    {"invalid_json", "json_list", "no_metrics", "empty", "null_metrics",
     "one", "two", "bad_value", "no_timestamp", "big"}

Message(name) ==
    CASE name = "invalid_json" -> Msg(TopicDevice, Body("invalid_json", FALSE, MetricsList(<< >>)))
      [] name = "json_list"    -> Msg(TopicNode, Body("list", FALSE, MetricsList(<< >>)))
      [] name = "no_metrics"   -> Msg(TopicNode, Body("dict", FALSE, MetricsList(<< >>)))
      [] name = "empty"        -> Msg(TopicDevice, DictBody(<< >>))
      [] name = "null_metrics" -> Msg(TopicDevice, Body("dict", TRUE, MetricsOther("None")))
      [] name = "one"          -> Msg(TopicDevice, DictBody(<<GoodMetric(1)>>))
      [] name = "two"          -> Msg(TopicNode, DictBody(<<TextValueMetric(2), NoValueMetric(3)>>))
      [] name = "bad_value"    -> Msg(TopicDevice, DictBody(<<GoodMetric(4), BadValueMetric(5)>>))
      [] name = "no_timestamp" -> Msg(TopicDevice, DictBody(<<NoTimestampMetric, GoodMetric(6)>>))
      [] name = "big"          -> Msg(TopicDevice, DictBody(BigBatch))

(* on_message up to the end of the loop of insert_metrics that builds the   *)
(* rows, for the message m: the rows, or the exception raised.              *)
BuiltOf(m) ==
    LET p == PayloadMetrics(m.body)
    IN  IF p.ok THEN BuildRows(m.topic, p.metrics)
        ELSE [ok |-> FALSE, exc |-> p.exc, rows |-> << >>]

(* ... for each message of the model *)
Built == [name \in MessageNames |-> BuiltOf(Message(name))]

(* client.subscribe("spBv1.0/#"): the topics the broker delivers *)
MatchesFilter(topic) == Len(topic) >= 1 /\ topic[1] = "spBv1.0"
                          /\ (Len(topic) >= 2 => topic[2] = "/")

----------------------------------------------------------------------------
(* A followed message: one message, of any topic under the filter and with  *)
(* metrics of any shape, given by the segments of its topic and its list of *)
(* metrics.                                                                 *)

NoDraft == [segs |-> << >>, items |-> << >>]

RECURSIVE Join(_)
(* "/".join(segs), as the topic the publisher sends *)
Join(segs) ==
    IF segs = << >> THEN << >>
    ELSE LET h == IF Head(segs) = "" THEN << >> ELSE <<Head(segs)>>
         IN  IF Len(segs) = 1 THEN h ELSE h \o <<"/">> \o Join(Tail(segs))

SegTexts == {"", "g1", "n1"}
TopicSegs ==
    {<<"spBv1.0">> \o tail :
        tail \in UNION {[1..n -> SegTexts] : n \in 0..(MaxSegs - 1)}}
DeviceSegs == <<"spBv1.0", "g1", "DDATA", "n1", "d1">>

(* What a key of a metric object can hold: has is whether the key is there. *)
Field(has, v) == [has |-> has, v |-> v]
NameFields == {Field(FALSE, PyNone), Field(TRUE, PyStr("temp"))}
AliasFields == {Field(FALSE, PyNone), Field(TRUE, PyInt(3))}
ValueFields ==
    {Field(FALSE, PyNone), Field(TRUE, PyNone), Field(TRUE, PyFloat(217)),
     Field(TRUE, PyInt(7)), Field(TRUE, PyStr("12.5")), Field(TRUE, PyStr("n/a")),
     Field(TRUE, PyList)}
TimestampFields ==
    {Field(FALSE, PyNone), Field(TRUE, PyNone), Field(TRUE, PyInt(0)),
     Field(TRUE, PyInt(1700000)), Field(TRUE, PyFloat(15)),
     Field(TRUE, PyStr("1700000")), Field(TRUE, PyList)}

MetricOf(n, a, v, ts) ==
    Metric({k \in AllKeys : [name |-> n, alias |-> a, value |-> v, timestamp |-> ts][k].has},
           n.v, a.v, v.v, ts.v)
Metrics ==
    {MetricOf(n, a, v, ts) :
        n \in NameFields, a \in AliasFields, v \in ValueFields, ts \in TimestampFields}

Drafts ==
    {[segs |-> sg, items |-> <<GoodMetric(1)>>] : sg \in TopicSegs}
        \cup {[segs |-> DeviceSegs, items |-> <<m>>] : m \in Metrics}

----------------------------------------------------------------------------
(* on_message(client, userdata, msg) and insert_metrics                     *)

NoMsg == [id |-> 0, rows |-> << >>, page |-> 0, connects |-> 0, execs |-> 0, stmts |-> 0]

(* on_message with `except ValueError` in place of `except Exception` *)
on_message_catches_ValueError(exc) == IsInstance(exc, "ValueError")

(* except Exception *)
on_message_catches(exc) == IsInstance(exc, "Exception")

(* the main loop with `except OSError` in place of `except Exception` *)
main_loop_catches_OSError(exc) == IsInstance(exc, "OSError")

(* except Exception, of the main loop *)
main_loop_catches(exc) == IsInstance(exc, "Exception")

(* insert_metrics without its test for an empty batch *)
insert_metrics_skips_Never(rows) == FALSE

(* if not rows: return *)
insert_metrics_skips(rows) == rows = << >>

(* An exception raised in the main loop's try block, by client.connect or   *)
(* by client.loop_forever.                                                  *)
Main_Raise(exc, how) ==
    /\ bus' = "DISCONNECTED"
    /\ endedBy' = [how |-> how, from |-> bus]
    /\ waited' = 0
    /\ subscribes' = << >>
    /\ mpc' = IF main_loop_catches(exc) THEN "except" ELSE "terminated"

(* An exception raised in the try block of on_message, the store            *)
(* connections being cs: caught and printed by the except clause, or left   *)
(* to propagate into client.loop_forever and from there to the main loop.   *)
OM_Raise(exc, id, cs) ==
    /\ failed' = failed \cup {id}
    /\ IF on_message_catches(exc)
          THEN /\ hpc' = "except"
               /\ conns' = FrameToTraceback(cs, "insert_metrics")
               /\ UNCHANGED <<escaped, mpc, bus, endedBy, waited, subscribes>>
          ELSE /\ hpc' = "idle"
               /\ escaped' = TRUE
               /\ conns' = FrameToTraceback(cs, "insert_metrics")
               /\ Main_Raise(exc, "raised")

(* on_message called for the id-th message, b being what decoding its body  *)
(* and building its rows gives: the exception is raised, or insert_metrics  *)
(* returns for want of rows, or it goes on to the store.                    *)
OM_Call(id, b) ==
    IF ~b.ok
        THEN OM_Raise(b.exc, id, conns) /\ cur' = [NoMsg EXCEPT !.id = id]
    ELSE IF insert_metrics_skips(b.rows)
        THEN /\ hpc' = "idle"
             /\ cur' = [NoMsg EXCEPT !.id = id]
             /\ UNCHANGED <<failed, escaped, conns, mpc, bus, endedBy, waited,
                            subscribes>>
    ELSE /\ hpc' = "im_connect"
         /\ cur' = [NoMsg EXCEPT !.id = id, !.rows = b.rows]
         /\ UNCHANGED <<failed, escaped, conns, mpc, bus, endedBy, waited,
                        subscribes>>

(* a client that hands a message to on_message while another is in it *)
Dispatches_Always(h) == TRUE

(* The client dispatches a message when on_message is not running. *)
Dispatches(h) == h = "idle"

(* The message called name arrives: decode the body, take its metrics,     *)
(* build the rows.                                                          *)
OnMessage(name) ==
    /\ mpc = "loop_forever" /\ bus = "SUBSCRIBED" /\ Dispatches(hpc)
    /\ Len(delivered) < MaxMsgs
    /\ MatchesFilter(Message(name).topic)
    /\ delivered' = Append(delivered, name)
    /\ OM_Call(Len(delivered) + 1, Built[name])
    /\ UNCHANGED <<retries, delay, attempt, ctTrace, ctExc, table_ready, store>>

(* The followed message arrives. *)
OnPublished ==
    /\ mpc = "loop_forever" /\ bus = "SUBSCRIBED" /\ Dispatches(hpc)
    /\ msg # NoDraft /\ delivered = << >>
    /\ MatchesFilter(Join(msg.segs))
    /\ delivered' = Append(delivered, "published")
    /\ OM_Call(1, BuiltOf(Msg(Join(msg.segs), DictBody(msg.items))))
    /\ UNCHANGED <<retries, delay, attempt, ctTrace, ctExc, table_ready, store>>

(* insert_metrics trying again when the store is unreachable *)
insert_metrics_retries_Operational(exc) == IsInstance(exc, "OperationalError")

(* insert_metrics has no except clause and no loop: an exception of the     *)
(* store is not retried                                                     *)
insert_metrics_retries(exc) == FALSE

(* An exception raised by the store inside insert_metrics. *)
IM_Raise(exc, cs) ==
    IF insert_metrics_retries(exc)
        THEN /\ hpc' = "im_connect"
             /\ conns' = FrameReturned(cs, "insert_metrics")
             /\ UNCHANGED <<failed, escaped, mpc, bus, endedBy, waited, subscribes>>
        ELSE OM_Raise(exc, cur.id, cs)

(* The rows of message id as the store keeps them. *)
Tagged(id, rows) == [i \in 1..Len(rows) |-> [msg |-> id, row |-> rows[i]]]

(* with psycopg2.connect(QDB_CONN) as conn *)
IM_Connect(outcome) ==
    /\ hpc = "im_connect"
    /\ cur' = [cur EXCEPT !.connects = @ + 1]
    /\ IF outcome = "ok"
          THEN /\ conns' = conns \cup {NewConn("insert_metrics")}
               /\ hpc' = "im_execute"
               /\ UNCHANGED <<failed, escaped, mpc, bus, endedBy, waited, subscribes>>
          ELSE IM_Raise(outcome, conns)
    /\ UNCHANGED <<retries, delay, attempt, ctTrace, ctExc, table_ready, store, delivered>>

(* execute_values(cur, "INSERT INTO mqtt_metrics (...) VALUES %s", rows):   *)
(* one step for each page of rows, that is for each INSERT statement        *)
IM_Execute(outcome) ==
    /\ hpc = "im_execute"
    /\ LET c == OwnConn("insert_metrics")
           k == cur.page + 1
       IN  IF outcome = "ok"
              THEN /\ IF c.autocommit
                         THEN /\ store' = store \o Tagged(cur.id, Page(cur.rows, k))
                              /\ UNCHANGED conns
                         ELSE /\ conns' = (conns \ {c}) \cup
                                     {[c EXCEPT !.pending = @ \o Page(cur.rows, k)]}
                              /\ UNCHANGED store
                   /\ cur' = [cur EXCEPT !.page = k, !.stmts = @ + 1,
                                         !.execs = IF k = 1 THEN @ + 1 ELSE @]
                   /\ hpc' = IF k = NumPages(cur.rows) THEN "im_commit" ELSE "im_execute"
                   /\ UNCHANGED <<failed, escaped, mpc, bus, endedBy, waited, subscribes>>
              ELSE /\ cur' = [cur EXCEPT !.stmts = @ + 1,
                                         !.execs = IF k = 1 THEN @ + 1 ELSE @]
                   /\ IM_Raise(outcome, (conns \ {c}) \cup {ConnExit(c, TRUE)})
                   /\ UNCHANGED store
    /\ UNCHANGED <<retries, delay, attempt, ctTrace, ctExc, table_ready, delivered>>

(* conn.commit(); leaving the with block; return; print("Inserted ...") *)
IM_Commit(outcome) ==
    /\ hpc = "im_commit"
    /\ LET c == OwnConn("insert_metrics")
       IN  IF outcome = "ok"
              THEN /\ store' = store \o Tagged(cur.id, c.pending)
                   /\ conns' = FrameReturned((conns \ {c}) \cup {ConnExit(c, FALSE)},
                                             "insert_metrics")
                   /\ hpc' = "idle"
                   /\ UNCHANGED <<failed, escaped, mpc, bus, endedBy, waited, subscribes>>
              ELSE /\ IM_Raise(outcome, (conns \ {c}) \cup {ConnExit(c, TRUE)})
                   /\ UNCHANGED store
    /\ UNCHANGED <<retries, delay, attempt, ctTrace, ctExc, table_ready, cur, delivered>>

(* print(f"Error processing message ..."); the except clause ends *)
OM_Except ==
    /\ hpc = "except"
    /\ hpc' = "idle"
    /\ conns' = TracebackDropped(conns)
    /\ UNCHANGED <<retries, delay, attempt, ctTrace, ctExc, mpc, table_ready, store, bus,
                   endedBy, waited, subscribes, cur, delivered, failed, escaped>>

----------------------------------------------------------------------------
(* The subscriber's main program                                            *)

NoEnd == [how |-> "none", from |-> "DISCONNECTED"]

hVars == <<hpc, cur, delivered, failed, escaped>>
ctVars == <<retries, delay, attempt, ctTrace, ctExc, table_ready>>

(* __main__ going on after create_table() however it ended *)
StartupDone_Ignoring(pc) == pc \in {"ct_returned", "ct_raised"}

(* create_table() has returned: the statements after it are reached *)
StartupDone(pc) == pc = "ct_returned"

(* client = mqtt.Client(); client.on_connect = ...; client.on_message = ... *)
Main_Setup ==
    /\ StartupDone(mpc)
    /\ mpc' = "mqtt_connect"
    /\ attempt' = 0
    /\ ctTrace' = << >>
    /\ ctExc' = ""
    /\ UNCHANGED <<retries, delay, table_ready, conns, store, bus, endedBy, waited,
                   subscribes>>
    /\ UNCHANGED hVars

(* create_table() has raised: nothing catches it, the process ends *)
Main_Abort ==
    /\ mpc = "ct_raised"
    /\ mpc' = "terminated"
    /\ conns' = {}
    /\ UNCHANGED <<store, bus, endedBy, waited, subscribes>>
    /\ UNCHANGED ctVars
    /\ UNCHANGED hVars

(* while True: try: client.connect(MQTT_HOST, MQTT_PORT) is called *)
Mqtt_Connect ==
    /\ mpc = "mqtt_connect"
    /\ mpc' = "connecting"
    /\ bus' = "CONNECTING"
    /\ UNCHANGED <<conns, store, endedBy, waited, subscribes>>
    /\ UNCHANGED ctVars
    /\ UNCHANGED hVars

(* client.connect returns, or raises *)
Mqtt_ConnectResult(outcome) ==
    /\ mpc = "connecting"
    /\ IF outcome = "ok"
          THEN /\ mpc' = "loop_forever"
               /\ bus' = "CONNECTED"
               /\ endedBy' = NoEnd
               /\ waited' = 0
               /\ UNCHANGED subscribes
          ELSE Main_Raise(outcome, "connect_failed")
    /\ UNCHANGED <<conns, store>>
    /\ UNCHANGED ctVars
    /\ UNCHANGED hVars

(* on_connect(client, userdata, flags, rc): print; client.subscribe(...).   *)
(* The broker takes the subscription when it has accepted the connection.   *)
On_Connect(rc) ==
    /\ mpc = "loop_forever" /\ bus = "CONNECTED"
    /\ subscribes' = Append(subscribes, rc)
    /\ bus' = IF rc = 0 THEN "SUBSCRIBED" ELSE "REFUSED"
    /\ UNCHANGED <<mpc, conns, store, endedBy, waited>>
    /\ UNCHANGED ctVars
    /\ UNCHANGED hVars

(* The transport disconnects and client.loop_forever() ends: it returns, or *)
(* it raises exc.                                                           *)
Loop_Ends(exc) ==
    /\ mpc = "loop_forever" /\ hpc = "idle"
    /\ bus \in {"CONNECTED", "SUBSCRIBED", "REFUSED"}
    /\ IF exc = "return"
          THEN /\ mpc' = "mqtt_connect"
               /\ bus' = "DISCONNECTED"
               /\ endedBy' = [how |-> "returned", from |-> bus]
               /\ waited' = 0
               /\ subscribes' = << >>
          ELSE Main_Raise(exc, "raised")
    /\ UNCHANGED <<conns, store>>
    /\ UNCHANGED ctVars
    /\ UNCHANGED hVars

(* print(f"MQTT connection failed: ..."); time.sleep(5) *)
Main_ExceptSleep ==
    /\ mpc = "except"
    /\ waited' = waited + ReconnectDelay
    /\ mpc' = "mqtt_connect"
    /\ conns' = TracebackDropped(conns)
    /\ UNCHANGED <<store, bus, endedBy, subscribes>>
    /\ UNCHANGED ctVars
    /\ UNCHANGED hVars

----------------------------------------------------------------------------
(* The query service (app/main.py)                                          *)

Temps == {20, 25}
NoResp == [ep |-> "", status |-> 0, detail |-> "", val |-> 0, saw |-> ""]
Resp(ep, status, detail, val) ==
    [ep |-> ep, status |-> status, detail |-> detail, val |-> val, saw |-> ""]

(* What the query of /temperatur met: "error", "no table", "no row", "row" *)
Saw(db, table) ==
    IF db # "ok" THEN "error"
    ELSE IF ~table.exists THEN "no table"
    ELSE IF table.rows = << >> THEN "no row" ELSE "row"

(* The except clauses of get_latest_temperature, in order: the response for *)
(* an exception raised in its try block.  An HTTPException that no clause   *)
(* takes reaches the framework, which answers with its status code.         *)
TemperaturExcept(exc, status) ==
    IF IsInstance(exc, "UndefinedTableError")
        THEN Resp("/temperatur", 500, "table missing", 0)
    ELSE IF IsInstance(exc, "Exception")
        THEN Resp("/temperatur", 500, "internal server error", 0)
    ELSE Resp("/temperatur", status, "", 0)

(* get_latest_temperature(): db is "ok" or the exception the pool or the    *)
(* connection raises.                                                       *)
LatestTemperature(db, table) ==
    IF db # "ok" THEN TemperaturExcept(db, 500)
    ELSE IF ~table.exists THEN TemperaturExcept("UndefinedTableError", 500)
    ELSE IF table.rows = << >> THEN TemperaturExcept("HTTPException", 404)
    ELSE Resp("/temperatur", 200, "", table.rows[Len(table.rows)])

(* startup(): app.state.db_pool = await asyncpg.create_pool(...) *)
Q_Startup(outcome) ==
    /\ pool = "none"
    /\ pool' = IF outcome = "ok" THEN "open" ELSE "failed"
    /\ UNCHANGED <<temp_data, resp>>
    /\ UNCHANGED subVars

(* shutdown() *)
Q_Shutdown ==
    /\ pool = "open"
    /\ pool' = "closed"
    /\ UNCHANGED <<temp_data, resp>>
    /\ UNCHANGED subVars

(* GET / *)
Q_ReadRoot ==
    /\ pool = "open"
    /\ resp' = Resp("/", 200, "ok", 0)
    /\ UNCHANGED <<pool, temp_data>>
    /\ UNCHANGED subVars

(* GET /qdbversion *)
Q_Version(db) ==
    /\ pool = "open"
    /\ resp' = IF db = "ok" THEN Resp("/qdbversion", 200, "CONNECTED", 0)
               ELSE Resp("/qdbversion", 500, "database error", 0)
    /\ UNCHANGED <<pool, temp_data>>
    /\ UNCHANGED subVars

(* GET /temperatur *)
Q_Temperatur(db) ==
    /\ pool = "open"
    /\ resp' = [LatestTemperature(db, temp_data) EXCEPT !.saw = Saw(db, temp_data)]
    /\ UNCHANGED <<pool, temp_data>>
    /\ UNCHANGED subVars

(* Other clients of the store create, fill and drop Temp_data. *)
Q_CreateTable ==
    /\ ~temp_data.exists
    /\ temp_data' = [exists |-> TRUE, rows |-> << >>]
    /\ UNCHANGED <<pool, resp>>
    /\ UNCHANGED subVars

Q_Insert(v) ==
    /\ temp_data.exists
    /\ Len(temp_data.rows) < MaxReadings
    /\ temp_data' = [temp_data EXCEPT !.rows = Append(@, v)]
    /\ UNCHANGED <<pool, resp>>
    /\ UNCHANGED subVars

Q_DropTable ==
    /\ temp_data.exists
    /\ temp_data' = [exists |-> FALSE, rows |-> << >>]
    /\ UNCHANGED <<pool, resp>>
    /\ UNCHANGED subVars

----------------------------------------------------------------------------
(* Specifications                                                           *)

SubInit(r, d) ==
    /\ retries = r /\ delay = d /\ attempt = 0 /\ ctTrace = << >> /\ ctExc = ""
    /\ mpc = "create_table"
    /\ table_ready = FALSE
    /\ conns = {} /\ store = << >>
    /\ bus = "DISCONNECTED" /\ endedBy = NoEnd /\ waited = 0 /\ subscribes = << >>
    /\ hpc = "idle" /\ cur = NoMsg /\ delivered = << >> /\ failed = {}
    /\ escaped = FALSE
    /\ msg = NoDraft

QInit0 ==
    /\ pool = "none"
    /\ temp_data = [exists |-> FALSE, rows |-> << >>]
    /\ resp = NoResp

(* The subscriber process: __main__ calls create_table() with its defaults. *)
Init == SubInit(DefaultRetries, DefaultDelay) /\ QInit0

CreateTable ==
    \/ \E o \in {"ok"} \cup StoreErrors : CT_Connect(o)
    \/ \E o \in {"ok"} \cup StoreErrors : CT_Execute(o)
    \/ \E o \in {"ok"} \cup StoreErrors : CT_Commit(o)
    \/ CT_Sleep
    \/ CT_Exhausted

CTStep == CreateTable /\ UNCHANGED <<bus, endedBy, waited, subscribes>>
             /\ UNCHANGED hVars /\ UNCHANGED <<qVars, msg>>

MainStep ==
    \/ Main_Setup
    \/ Main_Abort
    \/ Mqtt_Connect
    \/ \E o \in {"ok"} \cup BusErrors : Mqtt_ConnectResult(o)
    \/ Main_ExceptSleep

HandlerStep ==
    \/ \E o \in {"ok"} \cup StoreErrors : IM_Connect(o)
    \/ \E o \in {"ok"} \cup StoreErrors : IM_Execute(o)
    \/ \E o \in {"ok"} \cup StoreErrors : IM_Commit(o)
    \/ OM_Except

BusStep ==
    \/ \E rc \in ConnackCodes : On_Connect(rc)
    \/ \E name \in MessageNames : OnMessage(name)
    \/ \E e \in {"return"} \cup BusErrors : Loop_Ends(e)

Next ==
    \/ CTStep
    \/ MainStep /\ UNCHANGED <<qVars, msg>>
    \/ HandlerStep /\ UNCHANGED <<qVars, msg>>
    \/ BusStep /\ UNCHANGED <<qVars, msg>>

Spec == Init /\ [][Next]_vars

(* The program takes its next step whenever it has one; the bus and the     *)
(* store answer every call.  Messages and disconnects need not happen.      *)
Program == \/ CTStep
           \/ MainStep /\ UNCHANGED <<qVars, msg>>
           \/ HandlerStep /\ UNCHANGED <<qVars, msg>>
LiveSpec == Init /\ [][Next]_vars /\ WF_vars(Program)

(* create_table called with any retries and delay *)
InitCT ==
    /\ \E r \in 0..MaxRetries : \E d \in 1..MaxDelay : SubInit(r, d)
    /\ QInit0
SpecCreateTable == InitCT /\ [][CTStep]_vars

(* The query service *)
QNext ==
    \/ \E o \in {"ok", "OSError"} : Q_Startup(o)
    \/ Q_Shutdown
    \/ Q_ReadRoot
    \/ \E db \in {"ok", "InterfaceError"} : Q_Version(db)
    \/ \E db \in {"ok", "InterfaceError"} : Q_Temperatur(db)
    \/ Q_CreateTable
    \/ \E v \in Temps : Q_Insert(v)
    \/ Q_DropTable
SpecQuery == Init /\ [][QNext]_vars

(* One message, of any topic and metric, sent to the subscribed client *)
InitPublished ==
    /\ retries = DefaultRetries /\ delay = DefaultDelay /\ attempt = 0
    /\ ctTrace = << >> /\ ctExc = ""
    /\ mpc = "loop_forever"
    /\ table_ready = TRUE
    /\ conns = {} /\ store = << >>
    /\ bus = "SUBSCRIBED" /\ endedBy = NoEnd /\ waited = 0 /\ subscribes = <<0>>
    /\ hpc = "idle" /\ cur = NoMsg /\ delivered = << >> /\ failed = {}
    /\ escaped = FALSE
    /\ msg \in Drafts
    /\ QInit0
PublishedStep == (OnPublished \/ HandlerStep) /\ UNCHANGED <<qVars, msg>>
SpecPublished == InitPublished /\ [][PublishedStep]_vars

----------------------------------------------------------------------------
(* Properties                                                               *)

CTpcs == {"create_table", "ct_execute", "ct_commit", "ct_sleep", "ct_returned", "ct_raised"}

(* The rows of message i in the store, in the store's order. *)
StoredRows(i) ==
    LET sel == SelectSeq(store, LAMBDA e : e.msg = i)
    IN  [k \in 1..Len(sel) |-> sel[k].row]

(* The metrics of the message called name all parse: its rows can be built. *)
AllParse(name) == Built[name].ok

(* C1: whatever exception decoding the body, building the rows or writing   *)
(* them raises for a message, on_message catches it: no exception leaves    *)
(* on_message, the client is still SUBSCRIBED in its receive loop while the *)
(* error is being reported, and the process has not ended.                  *)
C1_ExceptionsCaught ==
    /\ ~escaped
    /\ hpc = "except" => (bus = "SUBSCRIBED" /\ mpc = "loop_forever" /\ cur.id \in failed)
    /\ failed # {} => mpc \in {"loop_forever", "mqtt_connect", "connecting", "except"}

(* A message that cannot be decoded, then a message whose insert failed:    *)
(* both were reported and the client is subscribed and idle.                *)
C1_Witness ==
    /\ Len(delivered) = 2 /\ failed = {1, 2}
    /\ ~AllParse(delivered[1]) /\ AllParse(delivered[2])
    /\ hpc = "idle" /\ bus = "SUBSCRIBED" /\ mpc = "loop_forever"

(* C2: the main program connects to the bus, subscribes and processes       *)
(* messages only after create_table has returned with the table created and *)
(* committed; when create_table raises the process ends without a bus       *)
(* connection ever having been attempted.                                   *)
EverConnected ==
    bus # "DISCONNECTED" \/ endedBy.how # "none" \/ subscribes # << >> \/ delivered # << >>

C2_SchemaBeforeBus ==
    /\ EverConnected => (table_ready /\ mpc \notin CTpcs /\ mpc # "terminated")
    /\ mpc \in {"ct_raised", "terminated"} => ~EverConnected
    /\ mpc \in {"mqtt_connect", "connecting", "loop_forever", "except"} => table_ready

(* A message has been handed to on_message on a subscribed client. *)
C2_Witness == delivered # << >> /\ table_ready /\ bus = "SUBSCRIBED"

(* C3: create_table makes at most `retries` store connection attempts, any  *)
(* two attempts have a sleep of `delay` between them, it raises the fatal   *)
(* error after exactly `retries` failed attempts, and it returns after      *)
(* exactly k attempts when the k-th is the first to succeed.                *)
Connects(tr) == Cardinality({i \in 1..Len(tr) : tr[i].ev = "connect"})
LastEvent(tr) == IF tr = << >> THEN "" ELSE tr[Len(tr)].ev

C3_BoundedRetries ==
    /\ Connects(ctTrace) <= retries
    /\ Len(ctTrace) <= 2 * retries + 1
    /\ \A i, j \in 1..Len(ctTrace) :
          (i < j /\ ctTrace[i].ev = "connect" /\ ctTrace[j].ev = "connect")
              => \E k \in (i + 1)..(j - 1) : ctTrace[k] = Event("sleep", delay)
    /\ LastEvent(ctTrace) = "raise_fatal" =>
          (mpc = "ct_raised" /\ Connects(ctTrace) = retries /\ attempt = retries)
    /\ LastEvent(ctTrace) = "return" =>
          (mpc = "ct_returned" /\ Connects(ctTrace) = attempt + 1)
    /\ mpc = "ct_returned" => LastEvent(ctTrace) = "return"

(* The store was unreachable at every one of two or more attempts. *)
C3_Witness ==
    /\ retries >= 2 /\ mpc = "ct_raised" /\ LastEvent(ctTrace) = "raise_fatal"
    /\ Connects(ctTrace) = retries /\ conns = {}

(* C4: a store connection is closed by the time the function that opened it *)
(* has exited, by return or by exception: the connections that are open     *)
(* belong to a function still running, and between two messages the writer  *)
(* holds no open connection.                                                *)
C4_ConnectionsReleased ==
    /\ \A c \in conns : c.ref = "frame"
    /\ (hpc = "idle" /\ mpc \notin CTpcs) => conns = {}

(* C5: /temperatur answers 404 when Temp_data exists and holds no row, and  *)
(* 500 when the table does not exist or the query fails otherwise.          *)
C5_EmptyTableNotFound ==
    resp.ep = "/temperatur" =>
        /\ resp.saw = "no row" => resp.status = 404
        /\ resp.saw \in {"no table", "error"} => resp.status = 500

(* C6: after the receive loop has ended, by returning or by raising, the    *)
(* next connect attempt is made only once the fixed delay has been slept.   *)
C6_DelayBeforeReconnect ==
    (bus = "CONNECTING" /\ endedBy.how \in {"returned", "raised"}
                        /\ endedBy.from = "SUBSCRIBED") => waited >= ReconnectDelay

(* C7: once startup has succeeded the main loop never ends, and whenever a  *)
(* connect call has raised or the receive loop has ended a new connect      *)
(* attempt follows.                                                         *)
C7_ReconnectsForever ==
    /\ [](mpc = "terminated" => endedBy.how = "none")
    /\ (bus = "DISCONNECTED" /\ endedBy.how # "none") ~> (bus = "CONNECTING")

(* A connect attempt made after the receive loop raised. *)
C7_Witness ==
    bus = "CONNECTING" /\ endedBy.how = "raised" /\ waited = ReconnectDelay

(* C8: insert_metrics called with no metrics opens no store connection,     *)
(* executes no statement and returns normally.                              *)
EmptyMetrics(name) ==
    LET p == PayloadMetrics(Message(name).body)
    IN  p.ok /\ p.metrics = MetricsList(<< >>)

C8_EmptyBatchNoConnection ==
    \A i \in 1..Len(delivered) :
        EmptyMetrics(delivered[i]) =>
            /\ i \notin failed
            /\ StoredRows(i) = << >>
            /\ cur.id = i => /\ hpc = "idle"
                             /\ cur.connects = 0 /\ cur.execs = 0 /\ cur.stmts = 0
                             /\ \A c \in conns : c.owner # "insert_metrics"

(* A message with an empty metrics list, on either topic, has been handled. *)
C8_Witness ==
    /\ Len(delivered) = 2
    /\ EmptyMetrics(delivered[1]) /\ EmptyMetrics(delivered[2])
    /\ Message(delivered[1]).topic # Message(delivered[2]).topic
    /\ Message(delivered[2]).body.hasMetrics
    /\ cur.id = 2 /\ hpc = "idle"

(* For each message, the name, alias and scaled timestamp of its metrics,   *)
(* in the order of its metrics list.                                        *)
Wanted ==
    [name \in MessageNames |->
        LET items == Message(name).body.metrics.items
        IN  [k \in 1..Len(items) |->
                <<Get(items[k], "name"), Get(items[k], "alias"),
                  Get(items[k], "timestamp").n * TsScale>>]]

(* rs holds one row for each metric of the message, in the order of the     *)
(* metrics.                                                                 *)
OneRowPerMetric(rs, name) ==
    [k \in 1..Len(rs) |-> <<rs[k][6], rs[k][7], rs[k][9].n>>] = Wanted[name]

AllOrNothing ==
    \A i \in 1..Len(delivered) :
        AllParse(delivered[i]) =>
            \/ StoredRows(i) = << >>
            \/ OneRowPerMetric(StoredRows(i), delivered[i])

OneTransaction ==
    /\ cur.connects <= 1
    /\ Cardinality({c \in conns : c.owner = "insert_metrics"}) <= 1

(* C9 as claimed: the rows of a message are stored all or none, by a single *)
(* statement in one transaction on one connection.                          *)
C9_SingleStatement ==
    /\ AllOrNothing
    /\ OneTransaction
    /\ cur.stmts <= 1

(* C9: the rows of a message whose metrics all parse are stored all, one    *)
(* row per metric in the order of the metrics, or none, in one transaction  *)
(* on one connection, by one statement for each page of page_size rows.     *)
C9_AllOrNothing ==
    /\ AllOrNothing
    /\ OneTransaction
    /\ cur.stmts >= 1 => (cur.stmts - 1) * page_size < Len(cur.rows)

(* A batch of more than page_size rows has been stored. *)
C9_Witness ==
    \E i \in 1..Len(delivered) :
        /\ Len(StoredRows(i)) = page_size + 1
        /\ OneRowPerMetric(StoredRows(i), delivered[i])

(* C10: processing a message makes at most one store connection attempt and *)
(* at most one call of execute_values; when the store fails the exception   *)
(* reaches on_message, and the rows of a failed message are never stored.   *)
C10_NoRetry ==
    /\ cur.connects <= 1 /\ cur.execs <= 1
    /\ hpc = "except" => cur.id \in failed
    /\ hpc \in {"im_connect", "im_execute", "im_commit"} => cur.id \notin failed
    /\ \A i \in failed : StoredRows(i) = << >>

(* The insert of a first message failed after a statement of it had been    *)
(* executed, and a second message has been stored since.                    *)
C10_Witness ==
    /\ Len(delivered) = 2 /\ failed = {1}
    /\ AllParse(delivered[1])
    /\ StoredRows(1) = << >> /\ StoredRows(2) # << >>
    /\ hpc = "idle"

(* Whether the metric m of a message on topic gives a row, and the rows of  *)
(* the metrics of a list that do, in the order of the list.                 *)
MetricParses(topic, m) == Row(Split(topic), m).ok
ParsedRowsOf(topic, items) ==
    LET good == SelectSeq(items, LAMBDA m : MetricParses(topic, m))
    IN  [k \in 1..Len(good) |-> Row(Split(topic), good[k]).val]

(* The messages of which some metric parses and some metric does not. *)
Mixed ==
    [name \in MessageNames |->
        LET m == Message(name)
            items == m.body.metrics.items
        IN  /\ PayloadMetrics(m.body).ok
            /\ \E k \in 1..Len(items) : MetricParses(m.topic, items[k])
            /\ \E k \in 1..Len(items) : ~MetricParses(m.topic, items[k])]
ParsedRows ==
    [name \in MessageNames |->
        ParsedRowsOf(Message(name).topic, Message(name).body.metrics.items)]

(* C11: when on_message is done with a message of which some metrics parse  *)
(* and some do not, and the store has not failed, the rows of the metrics   *)
(* that parse are in the store.                                             *)
C11_SiblingsInserted ==
    (/\ cur.id >= 1 /\ hpc = "idle"
     /\ Mixed[delivered[cur.id]]
     /\ ~(cur.connects >= 1 /\ cur.id \in failed))
        => StoredRows(cur.id) = ParsedRows[delivered[cur.id]]

(* The timestamp of the metric m is missing or is not a number. *)
BadTimestamp(m) == Get(m, "timestamp").t \notin {"int", "float"}

(* on_message has been called for the followed message. *)
Handled == msg # NoDraft /\ delivered # << >>

(* C12: for a metric whose timestamp is missing or is not a number,         *)
(* building the row raises: insert_metrics fails before it turns to the     *)
(* store, and no row of the metric is handed to the store or stored.        *)
C12_BadTimestampRaises ==
    (Handled /\ BadTimestamp(msg.items[1])) =>
        /\ 1 \in failed
        /\ cur.rows = << >> /\ cur.connects = 0 /\ cur.stmts = 0
        /\ store = << >>
        /\ \A c \in conns : c.pending = << >>

(* The message in process is the last one delivered; the store holds the    *)
(* batches in the order of delivery; rows wait in one transaction at most.  *)
Serial ==
    /\ cur.id = Len(delivered)
    /\ \A k \in 1..Len(store) : store[k].msg \in 1..Len(delivered)
    /\ \A k, l \in 1..Len(store) : k < l => store[k].msg <= store[l].msg
    /\ \A c \in conns : c.pending # << >> =>
          (c.owner = "insert_metrics" /\ hpc \in {"im_execute", "im_commit"})
    /\ Cardinality({c \in conns : c.owner = "insert_metrics" /\ c.txn = "active"}) <= 1

StartsWhenIdle ==
    delivered' # delivered =>
        /\ hpc = "idle"
        /\ \A c \in conns : ~(c.owner = "insert_metrics" /\ c.txn = "active")
        /\ store' = store

(* C13: one message is processed at a time, in delivery order: the message  *)
(* being processed is the last one delivered, a message is handed to        *)
(* on_message only when the processing of the one before is over, its       *)
(* insert committed or failed, and the batches in the store are in the      *)
(* order of receipt.                                                        *)
C13_InOrder == []Serial /\ [][StartsWhenIdle]_vars

(* Two messages have been stored, one after the other. *)
C13_Witness ==
    /\ Len(delivered) = 2 /\ failed = {} /\ hpc = "idle"
    /\ StoredRows(1) # << >> /\ StoredRows(2) # << >>
    /\ store = Tagged(1, StoredRows(1)) \o Tagged(2, StoredRows(2))

(* C14: the five labels of a row are the first five segments of the topic,  *)
(* each verbatim and in its place, with null for a segment the topic does   *)
(* not have; further segments are ignored, and no topic makes the building  *)
(* of the rows fail.                                                        *)
C14_TopicLabels ==
    /\ (Handled /\ cur.rows # << >>) =>
          \A k \in 1..Len(cur.rows) :
              /\ Len(cur.rows[k]) = 9
              /\ \A i \in 0..4 :
                    cur.rows[k][i + 1] = IF i < Len(msg.segs)
                                            THEN PyStr(msg.segs[i + 1])
                                            ELSE PyNone
    /\ (Handled /\ msg.items = <<GoodMetric(1)>>) =>
          /\ Len(cur.rows) = 1
          /\ 1 \in failed => cur.connects = 1

(* A row of a topic of three segments, the second one empty, is stored. *)
C14_Witness ==
    /\ Handled /\ Len(msg.segs) = 3 /\ msg.segs[2] = "" /\ msg.segs[3] # ""
    /\ Len(store) = 1
    /\ store[1].row[2] = PyStr("") /\ store[1].row[4] = PyNone

(* The value of the metric m is absent or null, or float() takes it. *)
ValueCoerces(m) == Get(m, "value") = PyNone \/ PyFloatOf(Get(m, "value")).ok

(* The labels of a topic of the segments segs. *)
LabelsOf(segs) ==
    [i \in 1..5 |-> IF i <= Len(segs) THEN PyStr(segs[i]) ELSE PyNone]

(* C15: for a metric with an integer timestamp t, the row built for it has  *)
(* ts = t * 1000 as an integer, the name and the alias of the metric as     *)
(* they are (null when absent), and the five labels of the topic; the row   *)
(* is stored as it was built.                                               *)
C15_TimestampScaled ==
    (Handled /\ Get(msg.items[1], "timestamp").t = "int" /\ ValueCoerces(msg.items[1])) =>
        LET m == msg.items[1]
            r == cur.rows[1]
        IN  /\ Len(cur.rows) = 1
            /\ r[9] = PyInt(Get(m, "timestamp").n * 1000)
            /\ r[6] = Get(m, "name") /\ r[7] = Get(m, "alias")
            /\ SubSeq(r, 1, 5) = LabelsOf(msg.segs)
            /\ store \in {<< >>, Tagged(1, cur.rows)}

(* The row of a metric with timestamp 1700000 and no name is stored. *)
C15_Witness ==
    /\ Handled /\ Get(msg.items[1], "timestamp") = PyInt(1700000)
    /\ "name" \notin msg.items[1].has
    /\ Len(store) = 1
    /\ store[1].row[9] = PyInt(1700000000)
    /\ store[1].row[6] = PyNone /\ store[1].row[7] = PyInt(3)

C17_ValueCoerced ==
    (Handled /\ Get(msg.items[1], "timestamp") # PyNone) =>
        LET v == Get(msg.items[1], "value")
            built == Len(cur.rows) = 1
            raised == /\ cur.rows = << >> /\ 1 \in failed
                      /\ cur.connects = 0 /\ store = << >>
        IN  /\ ("value" \notin msg.items[1].has \/ v = PyNone)
                  => (built /\ cur.rows[1][8] = PyNone)
            /\ v = PyFloat(217) => (built /\ cur.rows[1][8] = PyFloat(217))
            /\ v = PyInt(7) => (built /\ cur.rows[1][8] = PyFloat(70))
            /\ v = PyStr("12.5") => (built /\ cur.rows[1][8] = PyFloat(125))
            /\ v \in {PyStr("n/a"), PyList} => raised
            /\ built \/ raised

(* The row of a metric with the value "12.5" is stored with 12.5. *)
C17_Witness ==
    /\ Handled /\ Get(msg.items[1], "value") = PyStr("12.5")
    /\ Len(store) = 1 /\ store[1].row[8] = PyFloat(125)

(* The messages whose body decodes and for which the loop that builds the   *)
(* rows raises: the metrics are no sequence, or an element gives no row.    *)
RowsRaise ==
    [name \in MessageNames |->
        LET m == Message(name)
            p == PayloadMetrics(m.body)
        IN  /\ p.ok
            /\ \/ p.metrics.t \notin {"list", "str", "dict"}
               \/ \E k \in 1..Len(p.metrics.items) :
                     ~MetricParses(m.topic, p.metrics.items[k])]

(* What holds of a message whose rows could not be built, and of the step   *)
(* that hands it to on_message.                                             *)
NoStoreAccess ==
    /\ \A i \in 1..Len(delivered) :
          RowsRaise[delivered[i]] => (i \in failed /\ StoredRows(i) = << >>)
    /\ (cur.id >= 1 /\ RowsRaise[delivered[cur.id]]) =>
          /\ cur.connects = 0 /\ cur.execs = 0 /\ cur.stmts = 0
          /\ hpc \in {"except", "idle"}
          /\ \A c \in conns : c.owner # "insert_metrics"

StoreUntouched ==
    (cur.id' >= 1 /\ RowsRaise[delivered'[cur.id']]) => (store' = store /\ conns' = conns)

(* C18: a message for which the building of the rows raises opens no store  *)
(* connection, executes no statement and leaves the store as it was.        *)
C18_RowsBeforeConnection == []NoStoreAccess /\ [][StoreUntouched]_vars

(* After a message that was stored, a message whose second metric has a     *)
(* value that cannot be coerced has been rejected.                          *)
C18_Witness ==
    /\ Len(delivered) = 2 /\ failed = {2} /\ hpc = "idle"
    /\ RowsRaise[delivered[2]] /\ Mixed[delivered[2]]
    /\ MetricParses(TopicDevice, Message(delivered[2]).body.metrics.items[1])
    /\ store # << >> /\ store = Tagged(1, StoredRows(1))
    /\ cur.connects = 0

(* The exception last raised in create_table is no operational error.       *)
OtherError == ctExc # "" /\ ctExc # "OperationalError"

RetryOnlyOperational ==
    /\ mpc = "ct_sleep" => ctExc = "OperationalError"
    /\ \A k \in 1..Len(ctTrace) :
          ctTrace[k].ev = "sleep" => (k < Len(ctTrace) \/ ctExc = "OperationalError")
    /\ OtherError =>
          /\ mpc \in {"ct_raised", "terminated"}
          /\ LastEvent(ctTrace) = "raise_other"
          /\ ctTrace[Len(ctTrace) - 1].ev = "connect"
          /\ Connects(ctTrace) = attempt + 1
          /\ ~table_ready /\ ~EverConnected

NothingAfterOtherError == OtherError => (ctTrace' = ctTrace /\ mpc' = "terminated")

(* C19: create_table sleeps and tries again only after an operational error *)
(* of the store; any other exception raised by connect, by the statement or *)
(* by commit leaves create_table on the attempt where it is raised, with no *)
(* sleep and no attempt after it, and the process ends without having       *)
(* turned to the bus.                                                       *)
C19_OnlyOperationalRetried == []RetryOnlyOperational /\ [][NothingAfterOtherError]_vars

(* After one attempt that found the store unreachable, the statement or the *)
(* commit of the second attempt raised another error.                       *)
C19_Witness ==
    /\ mpc = "ct_raised" /\ ctExc = "ProgrammingError" /\ attempt = 1
    /\ Connects(ctTrace) = 2
    /\ \E c \in conns : c.ref = "traceback" /\ c.txn = "rolledback"

====
